---------------------------- MODULE Spec2Model ----------------------------
(***************************************************************************)
(* Model of checkrel.py (technical lag of a PyPI package and of its        *)
(* transitive dependencies).                                               *)
(*                                                                         *)
(* Version strings are sequences of naturals: "1" is <<1>>, "1.5" is       *)
(* <<1,5>>, "1.5.0" is <<1,5,0>>.  semantic_version.Version.coerce pads a  *)
(* string to three components; str() of a Version is the three-component   *)
(* string.                                                                 *)
(***************************************************************************)
EXTENDS Naturals, Integers, Sequences, FiniteSets, TLC

\* ------------------------------------------------------------------ bounds
MaxMajor == 2
MaxReleases == 3

\* ------------------------------------------------- versions and constraints
Majors == 1..MaxMajor
Minors == {0, 5}

\* The version strings a registry document may use as release keys.
RawVersions ==
    {<<M>> : M \in Majors}
    \cup {<<M, 0>> : M \in Majors}
    \cup {<<M, m, 0>> : M \in Majors, m \in Minors}

\* semantic_version.Version.coerce followed by str(): missing components are 0.
Coerce(raw) ==
    <<raw[1], IF Len(raw) >= 2 THEN raw[2] ELSE 0, IF Len(raw) >= 3 THEN raw[3] ELSE 0>>

\* A wrong precedence of the components: minor before major.
VLtMinorFirst(a, b) ==
    \/ a[2] < b[2]
    \/ a[2] = b[2] /\ a[1] < b[1]
    \/ a[2] = b[2] /\ a[1] = b[1] /\ a[3] < b[3]

\* Version.__lt__ / __le__: major, then minor, then patch.
VLt(a, b) ==
    \/ a[1] < b[1]
    \/ a[1] = b[1] /\ a[2] < b[2]
    \/ a[1] = b[1] /\ a[2] = b[2] /\ a[3] < b[3]

VLe(a, b) == a = b \/ VLt(a, b)

\* What Spec.select returns when nothing matches (Python's None).
None == <<>>

\* One (comparator, version) item of a semantic_version.Spec.
SpecItemMatch(item, v) ==
    CASE item.op = "==" -> v = item.v
      [] item.op = "!=" -> v # item.v
      [] item.op = ">=" -> VLe(item.v, v)
      [] item.op = "<=" -> VLe(v, item.v)
      [] item.op = ">"  -> VLt(item.v, v)
      [] item.op = "<"  -> VLt(v, item.v)

\* Spec.match: every item accepts the version (AND); the empty Spec accepts all.
SpecMatch(spec, v) == \A i \in DOMAIN spec : SpecItemMatch(spec[i], v)

MaxVersion(S) == CHOOSE v \in S : \A w \in S : VLe(w, v)

\* The lowest matching version instead of the highest.
SpecSelectLowest(spec, versions) ==
    LET options == {versions[i] : i \in {j \in DOMAIN versions : SpecMatch(spec, versions[j])}}
    IN IF options = {} THEN None ELSE CHOOSE v \in options : \A w \in options : VLe(v, w)

\* Spec.select: the highest matching version, None when there is none.
SpecSelect(spec, versions) ==
    LET options == {versions[i] : i \in {j \in DOMAIN versions : SpecMatch(spec, versions[j])}}
    IN IF options = {} THEN None ELSE MaxVersion(options)

\* sorted(list of Versions): ascending, duplicates kept.
RECURSIVE SortedInsert(_, _)
SortedInsert(v, s) ==
    IF s = <<>> THEN <<v>>
    ELSE IF VLe(v, Head(s)) THEN <<v>> \o s
    ELSE <<Head(s)>> \o SortedInsert(v, Tail(s))

RECURSIVE Sorted(_)
Sorted(s) == IF s = <<>> THEN <<>> ELSE SortedInsert(Head(s), Sorted(Tail(s)))

\* The list walked as it is, oldest first.
NotReversed(s) == s

Reversed(s) == [i \in 1..Len(s) |-> s[Len(s) + 1 - i]]

\* ------------------------------------------------------- registry documents
\* A file descriptor of a release; url names the release key it was listed under.
SdistFile(key) == [packagetype |-> "sdist", url |-> key]
WheelFile(key) == [packagetype |-> "bdist_wheel", url |-> key]

\* find_source's "no sdist" result, the empty dict.
NoFile == [packagetype |-> "none", url |-> <<>>]

RECURSIVE find_source(_)
find_source(release_data) ==
    IF release_data = <<>> THEN NoFile
    ELSE IF Head(release_data).packagetype = "sdist" THEN Head(release_data)
    ELSE find_source(Tail(release_data))

\* data['releases'] is an insertion-ordered dict: a sequence of [key, files]
\* entries with distinct keys.
DictKeys(d) == {d[i].key : i \in DOMAIN d}
DictGet(d, k) == d[CHOOSE i \in DOMAIN d : d[i].key = k].files
DictSet(d, k, files) ==
    IF k \in DictKeys(d)
    THEN [i \in DOMAIN d |-> IF d[i].key = k THEN [key |-> k, files |-> files] ELSE d[i]]
    ELSE Append(d, [key |-> k, files |-> files])

\* The normalization loop: every key that is not its own normal form is copied
\* under the normal form; the original key stays in the dict.
RECURSIVE NormalizeFrom(_, _)
NormalizeFrom(keys, d) ==
    IF keys = <<>> THEN d
    ELSE LET release == Head(keys)
             normal_release == Coerce(release)
         IN IF release # normal_release
            THEN NormalizeFrom(Tail(keys), DictSet(d, normal_release, DictGet(d, release)))
            ELSE NormalizeFrom(Tail(keys), d)

Normalize(d) == NormalizeFrom([i \in DOMAIN d |-> d[i].key], d)

\* The list sorted newest first (and then reversed by the walk).
ReleaseListDescending(d) == Reversed(Sorted([i \in DOMAIN d |-> Coerce(d[i].key)]))

\* The list the selection and the count work on.
ReleaseList(d) == Sorted([i \in DOMAIN d |-> Coerce(d[i].key)])


\* lag_package up to the call of find_dependencies: the registry document is
\* normalized, the current release's file found, the release selected, and
\* the releases walked from newest to oldest.
RECURSIVE LagLoop(_, _, _, _, _)
LagLoop(rev, count, to_check, releases_dict, current_file) ==
    IF count >= Len(rev)
    THEN \* the loop ends without a return: the function returns None
         [status |-> "returned_none", error |-> "none", release |-> None,
          count |-> count, file |-> NoFile]
    ELSE LET release == rev[count + 1] IN
         IF to_check = None
         THEN \* Version <= None: TypeError
              [status |-> "raised", error |-> "TypeError", release |-> None,
               count |-> count, file |-> NoFile]
         ELSE IF VLe(release, to_check)
         THEN LET to_check_file == find_source(DictGet(releases_dict, release)) IN
              IF to_check_file = NoFile \/ current_file = NoFile
              THEN \* {}['upload_time']
                   [status |-> "raised", error |-> "KeyError", release |-> release,
                    count |-> count, file |-> to_check_file]
              ELSE [status |-> "ok", error |-> "none", release |-> release,
                    count |-> count, file |-> to_check_file]
         ELSE LagLoop(rev, count + 1, to_check, releases_dict, current_file)

\* (Each intermediate value is bound by a set binder, so that it is computed
\* once however often the rest refers to it.)
LagSelected(releases_dict, current_file, releases, to_check) ==
    CHOOSE result \in
        {[status |-> r.status, error |-> r.error, release |-> r.release,
          count |-> r.count, file |-> r.file, to_check |-> to_check,
          releases |-> releases]
         : r \in {LagLoop(Reversed(releases), 0, to_check, releases_dict, current_file)}} : TRUE

LagNormalized(current, releases_dict, spec) ==
    IF current \notin DictKeys(releases_dict)
    THEN \* data['releases'][str(current)]
         [status |-> "raised", error |-> "KeyError", release |-> None, count |-> 0,
          file |-> NoFile, to_check |-> None, releases |-> <<>>]
    ELSE CHOOSE result \in
            UNION {{LagSelected(releases_dict, current_file, releases,
                                SpecSelect(spec, releases))
                    : current_file \in {find_source(DictGet(releases_dict, current))}}
                   : releases \in {ReleaseList(releases_dict)}} : TRUE

lag_package(doc, spec) ==
    CHOOSE result \in
        {LagNormalized(doc.version, releases_dict, spec)
         : releases_dict \in {Normalize(doc.releases)}} : TRUE

\* split_dependency: the package name and the Spec of the coerced versions.
split_dependency(dep) ==
    [package |-> dep.name,
     spec |-> [i \in DOMAIN dep.specs |-> [op |-> dep.specs[i].op, v |-> Coerce(dep.specs[i].v)]]]


\* ------------------------------------------------ archives and extraction
\* A path is a sequence of components, a component a sequence of characters.
Up == <<".", ".">>
TmpName == <<"t">>
RootName == <<"r">>
PkgName == <<"p">>
EggName == <<"e">>
ReqName == <<"q">>
SetupName == <<"s">>
SiblingName == <<"r", "x">>
OtherName == <<"o">>
LeafName == <<"l">>

\* The extraction directory tempfile.TemporaryDirectory() creates.
ExtractRoot == <<TmpName, RootName>>

\* The members an archive is made of.
MemberCatalog ==
    { [name |-> <<PkgName>>, kind |-> "dir"],
      [name |-> <<PkgName, EggName>>, kind |-> "dir"],
      [name |-> <<PkgName, EggName, ReqName>>, kind |-> "file"],
      [name |-> <<PkgName, SetupName>>, kind |-> "file"],
      [name |-> <<Up, SiblingName, LeafName>>, kind |-> "link"],
      [name |-> <<Up, OtherName, LeafName>>, kind |-> "link"],
      [name |-> <<LeafName>>, kind |-> "file"] }

\* os.path.abspath of a joined path: ".." drops the component before it.
RECURSIVE NormPath(_, _)
NormPath(done, rest) ==
    IF rest = <<>> THEN done
    ELSE IF Head(rest) = Up
         THEN NormPath(IF done = <<>> THEN <<>> ELSE SubSeq(done, 1, Len(done) - 1), Tail(rest))
         ELSE NormPath(Append(done, Head(rest)), Tail(rest))

AbsPath(path) == NormPath(<<>>, path)

\* The characters of an absolute path: "/" before every component.
RECURSIVE PathChars(_)
PathChars(path) ==
    IF path = <<>> THEN <<>> ELSE <<"/">> \o Head(path) \o PathChars(Tail(path))

\* os.path.commonprefix: the longest common prefix, character by character.
RECURSIVE CommonPrefix(_, _)
CommonPrefix(a, b) ==
    IF a = <<>> \/ b = <<>> \/ Head(a) # Head(b) THEN <<>>
    ELSE <<Head(a)>> \o CommonPrefix(Tail(a), Tail(b))

is_within_directory(directory, target) ==
    LET abs_directory == PathChars(AbsPath(directory))
        abs_target == PathChars(AbsPath(target))
        prefix == CommonPrefix(abs_directory, abs_target)
    IN prefix = abs_directory

\* Whether a resolved path lies in the directory (component by component).
Inside(directory, path) ==
    Len(path) >= Len(directory) /\ SubSeq(path, 1, Len(directory)) = directory

\* What extraction puts on disk: entries [path, kind].  The proper ancestors
\* of a target below the temporary area are created as directories.
DirEntry(path) == [path |-> path, kind |-> "dir"]
Ancestors(path) == {DirEntry(SubSeq(path, 1, n)) : n \in 2..(Len(path) - 1)}

\* safe_extract on a stream ("r|gz"): getmembers() reads the stream to its end,
\* then every member is checked, then extractall extracts the members in
\* order.  A directory or a link is created; a regular file needs its data,
\* which lies behind the stream's position: its parent directories are made
\* and the seek backwards raises StreamError.
RECURSIVE TarExtractAll(_, _)
TarExtractAll(members, written) ==
    IF members = <<>> THEN [exc |-> "none", written |-> written]
    ELSE LET member == Head(members)
             target == AbsPath(ExtractRoot \o member.name)
         IN IF member.kind = "file"
            THEN [exc |-> "StreamError", written |-> written \cup Ancestors(target)]
            ELSE TarExtractAll(Tail(members),
                               written \cup Ancestors(target)
                                       \cup {[path |-> target, kind |-> member.kind]})

safe_extract(members) ==
    IF \E i \in DOMAIN members : ~is_within_directory(ExtractRoot, ExtractRoot \o members[i].name)
    THEN [exc |-> "Exception", written |-> {}]
    ELSE TarExtractAll(members, {})

\* ZipFile.extractall: every member name is sanitized (".." components are
\* dropped) and written below the target directory; nothing is checked and
\* nothing is raised.
ZipSanitize(name) == SelectSeq(name, LAMBDA c : c # Up)

ZipExtractAll(members) ==
    LET targets == {[path |-> ExtractRoot \o ZipSanitize(members[i].name),
                     kind |-> IF members[i].kind = "dir" THEN "dir" ELSE "file"]
                    : i \in DOMAIN members}
    IN [exc |-> "none", written |-> targets \cup UNION {Ancestors(t.path) : t \in targets}]

\* The extraction branch of find_dependencies, by extension.
Extraction(archive) ==
    CASE archive.ext = "gz" -> safe_extract(archive.members)
      [] archive.ext = "zip" -> ZipExtractAll(archive.members)
      [] OTHER -> [exc |-> "SystemExit", written |-> {}]

\* get_package_dir: the top-level directories of the extraction directory;
\* the function returns the first one os.listdir happens to list.
TopLevelDirs(written) ==
    {e.path : e \in {w \in written : /\ w.kind = "dir"
                                     /\ Len(w.path) = Len(ExtractRoot) + 1
                                     /\ Inside(ExtractRoot, w.path)}}

\* get_requires, first tier: exactly one *.egg-info and a requires.txt in it.
EggInfo(dir, written) ==
    {e.path : e \in {w \in written : /\ Len(w.path) = Len(dir) + 1
                                     /\ Inside(dir, w.path)
                                     /\ w.path[Len(w.path)] = EggName}}

HasFile(path, written) == [path |-> path, kind |-> "file"] \in written

EggRequires(dir, written, archive) ==
    LET egg_info == EggInfo(dir, written) IN
    IF Cardinality(egg_info) = 1
       /\ HasFile((CHOOSE e \in egg_info : TRUE) \o <<ReqName>>, written)
    THEN archive.declares
    ELSE <<>>

\* run_setup("setup.py", stop_after='init') in the package directory.
RunSetup(dir, written, archive) ==
    IF HasFile(dir \o <<SetupName>>, written) /\ archive.setup = "ok"
    THEN "returns" ELSE "raises"

\* A directory of the process: tmp is the temporary directory it lies in (0: none).
StartDir == [tmp |-> 0, path |-> <<>>]
SitePackages == [tmp |-> 0, path |-> <<<<"s", "p">>>>]

\* get_requires(dir), given what was extracted and the process's working
\* directory and sys.path; it returns or raises, and leaves both behind.
get_requires(tmp, dir, written, archive, cwd0, path0) ==
    LET requires == EggRequires(dir, written, archive) IN
    IF Len(requires) # 0
    THEN [exc |-> "none", requires |-> requires, cwd |-> cwd0, sys_path |-> path0,
          tier |-> "egg"]
    ELSE LET my_dir == cwd0
             here == [tmp |-> tmp, path |-> dir]
             \* sys_path = sys.path names the same list object, which
             \* sys.path.append(dir) then changes
             sys_path == Append(path0, here)
         IN IF RunSetup(dir, written, archive) = "raises"
            THEN [exc |-> "SetupError", requires |-> <<>>, cwd |-> here,
                  sys_path |-> sys_path, tier |-> "setup"]
            ELSE [exc |-> "none", requires |-> archive.declares, cwd |-> my_dir,
                  sys_path |-> sys_path, tier |-> "setup"]

\* --------------------------------------------------------------- the world
Packages == {"a", "b", "c"}
MaxDeps == 2
MaxDepth == 4
MaxMembers == 2

VARIABLES
    registry,   \* package -> the document pypi.org serves for it
    artifact,   \* package -> the archive behind its sdist urls
    stack,      \* the frames of lag_package_transitive, the root first
    status,     \* "running", "done", "raised" (an exception left the program), "exited"
    error,      \* the exception that ended the program
    tempdirs,   \* the temporary directories that exist
    nextDir,    \* the number of temporary directories created so far
    escaped,    \* what extraction wrote outside its extraction directory
    cwd,        \* os.getcwd()
    sys_path,   \* sys.path
    out         \* the reports printed, in order

vars == <<registry, artifact, stack, status, error, tempdirs, nextDir, escaped,
          cwd, sys_path, out>>

NoLag == [status |-> "none", error |-> "none", release |-> None, count |-> 0,
          file |-> NoFile, to_check |-> None, releases |-> <<>>]

\* The frame of a call lag_package_transitive(package, constraint, depth).
Frame(package, spec, depth, parent) ==
    [package |-> package, spec |-> spec, depth |-> depth, pc |-> "lag_package",
     lag |-> NoLag, tmp |-> 0, written |-> {}, exc |-> "none", dependencies |-> <<>>,
     i |-> 1, tier |-> "none", cwd_before |-> StartDir, path_before |-> <<>>,
     node |-> 0, parent |-> parent]

Top == stack[Len(stack)]
SetTop(f) == [stack EXCEPT ![Len(stack)] = f]

Running == status = "running" /\ stack # <<>>

\* An exception (or sys.exit) leaves the program: no frame catches anything.
Abort(exc) ==
    /\ status' = IF exc = "SystemExit" THEN "exited" ELSE "raised"
    /\ error' = exc

\* lag_package, lines 189-214: the document is fetched and the release found.
CallLagPackage ==
    /\ Running /\ Top.pc = "lag_package"
    /\ LET r == lag_package(registry[Top.package], Top.spec) IN
       \/ /\ r.status = "ok"
          /\ stack' = SetTop([Top EXCEPT !.lag = r, !.pc = "find_dependencies"])
          /\ UNCHANGED <<status, error>>
       \/ /\ r.status # "ok"
          /\ stack' = SetTop([Top EXCEPT !.lag = r, !.pc = "raised"])
          \* a None result fails in the caller, which unpacks it into four names
          /\ Abort(IF r.status = "returned_none" THEN "TypeError" ELSE r.error)
    /\ UNCHANGED <<registry, artifact, tempdirs, nextDir, escaped, cwd, sys_path, out>>

\* find_dependencies, lines 130-134: the archive is opened and the temporary
\* directory created.
EnterTempDir ==
    /\ Running /\ Top.pc = "find_dependencies"
    /\ nextDir' = nextDir + 1
    /\ tempdirs' = tempdirs \cup {nextDir + 1}
    /\ stack' = SetTop([Top EXCEPT !.tmp = nextDir + 1, !.pc = "extract"])
    /\ UNCHANGED <<registry, artifact, status, error, escaped, cwd, sys_path, out>>

\* find_dependencies, lines 138-165: extraction by extension.
Extract ==
    /\ Running /\ Top.pc = "extract"
    /\ LET x == Extraction(artifact[Top.package])
           outside == {w \in x.written : ~Inside(ExtractRoot, w.path)}
       IN /\ escaped' = escaped \cup {[tmp |-> Top.tmp, path |-> w.path, kind |-> w.kind] : w \in outside}
          /\ stack' = SetTop([Top EXCEPT !.written = x.written \ outside, !.exc = x.exc,
                                         !.pc = IF x.exc = "none" THEN "get_requires"
                                                ELSE "exit_with"])
    /\ UNCHANGED <<registry, artifact, status, error, tempdirs, nextDir, cwd, sys_path, out>>

\* find_dependencies, lines 166-167: get_package_dir and get_requires.
GetRequires ==
    /\ Running /\ Top.pc = "get_requires"
    /\ \/ /\ TopLevelDirs(Top.written) = {}
          \* get_package_dir returns None; None + "/*.egg-info" is a TypeError
          /\ stack' = SetTop([Top EXCEPT !.exc = "TypeError", !.pc = "exit_with",
                                         !.cwd_before = cwd, !.path_before = sys_path])
          /\ UNCHANGED <<cwd, sys_path>>
       \/ \E dir \in TopLevelDirs(Top.written) :
             LET r == get_requires(Top.tmp, dir, Top.written, artifact[Top.package],
                                   cwd, sys_path)
             IN /\ cwd' = r.cwd
                /\ sys_path' = r.sys_path
                /\ stack' = SetTop([Top EXCEPT !.exc = r.exc, !.dependencies = r.requires,
                                               !.tier = r.tier, !.pc = "exit_with",
                                               !.cwd_before = cwd, !.path_before = sys_path])
    /\ UNCHANGED <<registry, artifact, status, error, tempdirs, nextDir, escaped, out>>

\* A directory removed only when the block is left without an exception.
TempDirsKeptOnError(dirs, tmp, exc) == IF exc = "none" THEN dirs \ {tmp} ELSE dirs

\* What leaving the "with tempfile.TemporaryDirectory()" block does to the
\* temporary directories, by return or by exception alike.
TempDirsAfterExit(dirs, tmp, exc) == dirs \ {tmp}

\* The with block is left: the directory is removed, and find_dependencies and
\* lag_package return, or the exception goes on.
ExitWith ==
    /\ Running /\ Top.pc = "exit_with"
    /\ tempdirs' = TempDirsAfterExit(tempdirs, Top.tmp, Top.exc)
    /\ \/ /\ Top.exc = "none"
          /\ stack' = SetTop([Top EXCEPT !.written = {}, !.pc = "print"])
          /\ UNCHANGED <<status, error>>
       \/ /\ Top.exc # "none"
          /\ stack' = SetTop([Top EXCEPT !.written = {}, !.pc = "raised"])
          /\ Abort(Top.exc)
    /\ UNCHANGED <<registry, artifact, nextDir, escaped, cwd, sys_path, out>>

\* lag_package_transitive, lines 232-236: the node's report.
PrintReport ==
    /\ Running /\ Top.pc = "print"
    /\ out' = Append(out, [package |-> Top.package, release |-> Top.lag.release,
                           count |-> Top.lag.count, depth |-> Top.depth,
                           parent |-> Top.parent])
    /\ stack' = SetTop([Top EXCEPT !.node = Len(out) + 1, !.pc = "loop", !.i = 1])
    /\ UNCHANGED <<registry, artifact, status, error, tempdirs, nextDir, escaped, cwd, sys_path>>

\* The child evaluated at its parent's depth.
SameDepth(depth) == depth

\* The depth a dependency of a node at that depth is evaluated at.
ChildDepth(depth) == depth + 1

\* The walk with a visited set: a dependency whose package was reported
\* already is skipped.
RecurseVisited ==
    /\ Running /\ Top.pc = "loop"
    /\ Top.i <= Len(Top.dependencies)
    /\ Len(stack) < MaxDepth
    /\ LET d == split_dependency(Top.dependencies[Top.i]) IN
       stack' = IF \E k \in DOMAIN out : out[k].package = d.package
                THEN SetTop([Top EXCEPT !.i = Top.i + 1])
                ELSE Append(SetTop([Top EXCEPT !.i = Top.i + 1]),
                            Frame(d.package, d.spec, Top.depth + 1, Top.node))
    /\ UNCHANGED <<registry, artifact, status, error, tempdirs, nextDir, escaped, cwd,
                   sys_path, out>>

\* lag_package_transitive, lines 237-240: the next dependency is split and the
\* function calls itself.  (MaxDepth caps the model's stack, not the program's.)
Recurse ==
    /\ Running /\ Top.pc = "loop"
    /\ Top.i <= Len(Top.dependencies)
    /\ Len(stack) < MaxDepth
    /\ LET d == split_dependency(Top.dependencies[Top.i]) IN
       stack' = Append(SetTop([Top EXCEPT !.i = Top.i + 1]),
                       Frame(d.package, d.spec, ChildDepth(Top.depth), Top.node))
    /\ UNCHANGED <<registry, artifact, status, error, tempdirs, nextDir, escaped, cwd,
                   sys_path, out>>

\* lag_package_transitive, line 241: the loop is over, the call returns.
Return ==
    /\ Running /\ Top.pc = "loop"
    /\ Top.i > Len(Top.dependencies)
    /\ stack' = SubSeq(stack, 1, Len(stack) - 1)
    /\ status' = IF Len(stack) = 1 THEN "done" ELSE status
    /\ UNCHANGED <<registry, artifact, error, tempdirs, nextDir, escaped, cwd, sys_path, out>>

Next ==
    \/ CallLagPackage
    \/ EnterTempDir
    \/ Extract
    \/ GetRequires
    \/ ExitWith
    \/ PrintReport
    \/ Recurse
    \/ Return

\* ------------------------------------------------------------ initial states
ReleaseEntry(key, sdist) ==
    [key |-> key,
     files |-> IF sdist THEN <<WheelFile(key), SdistFile(key)>> ELSE <<WheelFile(key)>>]

\* The document and archive of a package nothing is asked about.
PlainDoc ==
    [version |-> <<2, 0, 0>>,
     releases |-> <<ReleaseEntry(<<1, 0>>, TRUE), ReleaseEntry(<<2, 0, 0>>, TRUE)>>]

Declaration(name, op, v) == [name |-> name, specs |-> <<[op |-> op, v |-> v]>>]

\* A zip with a package directory, its egg-info and requires.txt, and setup.py.
EggArchive(declares) ==
    [ext |-> "zip",
     members |-> <<[name |-> <<PkgName, EggName, ReqName>>, kind |-> "file"],
                   [name |-> <<PkgName, SetupName>>, kind |-> "file"]>>,
     setup |-> "ok", declares |-> declares]

\* Release keys in the order of the document: ascending or descending spelling.
RawLt(a, b) ==
    \/ VLt(Coerce(a), Coerce(b))
    \/ Coerce(a) = Coerce(b) /\ Len(a) < Len(b)

RECURSIVE Ascending(_)
Ascending(S) ==
    IF S = {} THEN <<>>
    ELSE LET least == CHOOSE k \in S : \A j \in S \ {k} : RawLt(k, j)
         IN <<least>> \o Ascending(S \ {least})

KeyOrders(S) == {Ascending(S), Reversed(Ascending(S))}

KeySets == {S \in SUBSET RawVersions : Cardinality(S) \in 1..MaxReleases}

\* A version no document lists.
AbsentVersion == <<MaxMajor + 1, 0, 0>>

\* The documents: info.version is a listed key, the normal form of the first
\* key, or a version the document does not list; at most the first key lacks
\* its sdist file.
DocumentsOf(keys) ==
    {[version |-> version,
      releases |-> [i \in DOMAIN keys |-> ReleaseEntry(keys[i], i > 1 \/ sdist)]]
     : version \in {keys[i] : i \in DOMAIN keys} \cup {Coerce(keys[1]), AbsentVersion},
       sdist \in BOOLEAN}

Comparators == {"==", "!=", ">=", "<=", ">", "<"}

Constraints ==
    {<<>>}
    \cup {<<[op |-> "==", v |-> Coerce(v)]>> : v \in RawVersions \cup {AbsentVersion}}
    \cup {<<[op |-> op, v |-> v]>> : op \in Comparators \ {"=="}, v \in {<<1, 5, 0>>, <<2, 0, 0>>}}
    \cup {<<[op |-> ">=", v |-> <<1, 0, 0>>], [op |-> "<", v |-> <<2, 0, 0>>]>>}

\* lag_package on any document and constraint.
InitLag ==
    /\ \E keys \in UNION {KeyOrders(S) : S \in KeySets} :
          \E doc \in DocumentsOf(keys) :
             registry = [p \in Packages |-> IF p = "a" THEN doc ELSE PlainDoc]
    /\ artifact = [p \in Packages |-> EggArchive(<<>>)]
    /\ \E spec \in Constraints : stack = <<Frame("a", spec, 0, 0)>>
    /\ status = "running"
    /\ error = "none"
    /\ tempdirs = {}
    /\ nextDir = 0
    /\ escaped = {}
    /\ cwd = StartDir
    /\ sys_path = <<SitePackages>>
    /\ out = <<>>

NextLag == CallLagPackage

SpecLag == InitLag /\ [][NextLag]_vars

\* The command line: a package and a version, coerced into an exact constraint.
RootPackage == "a"
RootConstraint == <<[op |-> "==", v |-> Coerce(<<1, 0>>)]>>

\* Dependency graphs: every package declares at most MaxDeps of the packages.
PackageOrder == <<"a", "b", "c">>
DeclaresOf(S) ==
    LET names == SelectSeq(PackageOrder, LAMBDA p : p \in S)
    IN [i \in DOMAIN names |-> Declaration(names[i], ">=", <<1, 0>>)]

DependencySets == {S \in SUBSET Packages : Cardinality(S) <= MaxDeps}

\* Archives of every shape: up to MaxMembers members of the catalog.
RECURSIVE SeqsUpTo(_, _)
SeqsUpTo(S, n) ==
    IF n = 0 THEN {<<>>}
    ELSE LET shorter == SeqsUpTo(S, n - 1)
         IN shorter \cup {Append(q, x) : q \in {r \in shorter : Len(r) = n - 1}, x \in S}

Archives ==
    [ext : {"gz", "zip", "bz2"},
     members : SeqsUpTo(MemberCatalog, MaxMembers),
     setup : {"ok", "raises"},
     declares : {<<Declaration("b", ">=", <<1, 0>>)>>,
                 <<Declaration("b", "==", AbsentVersion)>>}]

\* A traversal: either any dependency graph over well-formed archives, or any
\* archive for the root package, which declares one dependency.
InitGraph ==
    \E deps \in [Packages -> DependencySets] :
        artifact = [p \in Packages |-> EggArchive(DeclaresOf(deps[p]))]

InitArchive ==
    \E archive \in Archives :
        artifact = [p \in Packages |-> IF p = RootPackage THEN archive ELSE EggArchive(<<>>)]

Init ==
    /\ registry = [p \in Packages |-> PlainDoc]
    /\ InitGraph \/ InitArchive
    /\ stack = <<Frame(RootPackage, RootConstraint, 0, 0)>>
    /\ status = "running"
    /\ error = "none"
    /\ tempdirs = {}
    /\ nextDir = 0
    /\ escaped = {}
    /\ cwd = StartDir
    /\ sys_path = <<SitePackages>>
    /\ out = <<>>

Spec == Init /\ [][Next]_vars

\* The program runs on: a step that can be taken is taken.
FairSpec == Init /\ [][Next]_vars /\ WF_vars(Next)

\* ------------------------------------------------- lag_package: the claims
\* The order of versions, stated on their own: major, minor, patch as one number.
Rank(v) == v[1] * 10000 + v[2] * 100 + v[3]
Newer(x, y) == Rank(x) > Rank(y)

\* The acceptance set of a constraint, stated on ranks.
Accepts(spec, v) ==
    \A i \in DOMAIN spec :
        CASE spec[i].op = "==" -> Rank(v) = Rank(spec[i].v)
          [] spec[i].op = "!=" -> Rank(v) # Rank(spec[i].v)
          [] spec[i].op = ">=" -> Rank(v) >= Rank(spec[i].v)
          [] spec[i].op = "<=" -> Rank(v) <= Rank(spec[i].v)
          [] spec[i].op = ">"  -> Rank(v) > Rank(spec[i].v)
          [] spec[i].op = "<"  -> Rank(v) < Rank(spec[i].v)

\* The call under study: the root frame, its document, its result.
LagDoc == registry[stack[1].package]
LagSpec == stack[1].spec
LagResult == stack[1].lag
LagCalled == stack # <<>> /\ stack[1].pc # "lag_package"
LagReturns == LagCalled /\ LagResult.status = "ok"

\* The keys of the document, and the keys of the mapping after normalization
\* (the raw keys and their normal forms, as strings).
RawKeys == {LagDoc.releases[i].key : i \in DOMAIN LagDoc.releases}
KeysAfterNormalization == RawKeys \cup {Coerce(k) : k \in RawKeys}
SomeReleaseSatisfies == \E k \in RawKeys : Accepts(LagSpec, Coerce(k))

\* C1: the release count is the zero-based position, in the releases from
\* newest to oldest, of the first release <= the selected version: as many
\* entries of the list are strictly newer than the selected version as the
\* count says, and the release reported is the selected one.
C1_CountIsPosition ==
    LagReturns =>
        /\ LagResult.release = LagResult.to_check
        /\ Len(LagResult.releases) = Cardinality(KeysAfterNormalization)
        /\ LagResult.count =
              Cardinality({k \in KeysAfterNormalization : Newer(Coerce(k), LagResult.to_check)})

\* C1's scenario: releases 1.0.0, 1.5.0, 2.0.0, constraint ==1.0.0: count 2.
C1_Witness ==
    /\ LagReturns
    /\ RawKeys = {<<1, 0, 0>>, <<1, 5, 0>>, <<2, 0, 0>>}
    /\ LagSpec = <<[op |-> "==", v |-> <<1, 0, 0>>]>>
    /\ LagResult.release = <<1, 0, 0>>
    /\ LagResult.count = 2

\* C2 as stated: whenever the selected version is the current version
\* (info.version), the release count is 0.
\* (Stated for documents whose keys are all normal forms, where the list
\* has no duplicate.)
C2_CountFromCurrent ==
    (/\ LagReturns
     /\ \A k \in RawKeys : k = Coerce(k)
     /\ LagResult.release = Coerce(LagDoc.version)) => LagResult.count = 0

\* C2 amended: the count is the offset from the newest release of the list, not
\* from info.version: it is 0 whenever the selected version is the highest
\* version of the release set, and it is not 0 when the current version is
\* selected and a newer release is listed.
C2_CountFromNewest ==
    LagReturns =>
        /\ (\A k \in RawKeys : ~Newer(Coerce(k), LagResult.release)) => LagResult.count = 0
        /\ (\E k \in RawKeys : Newer(Coerce(k), LagResult.release)) => LagResult.count > 0

C2_Witness ==
    /\ LagReturns
    /\ LagResult.release = Coerce(LagDoc.version)
    /\ \E k \in RawKeys : Newer(Coerce(k), LagResult.release)
    /\ LagResult.count > 0

\* C3: every normalized version occurs exactly once in the ordered release
\* list the selection and the count use.
C3_NoDuplicateVersions ==
    LagReturns =>
        \A i, j \in DOMAIN LagResult.releases :
            i # j => LagResult.releases[i] # LagResult.releases[j]

\* C4: when a release satisfies the constraint, the version reported is the
\* highest satisfying one and lies in the acceptance set; when none does, the
\* call fails: it returns nothing and no artifact is fetched.
C4_SelectHighestOrFail ==
    LagCalled =>
        /\ LagReturns =>
              /\ Accepts(LagSpec, LagResult.release)
              /\ LagResult.release \in {Coerce(k) : k \in RawKeys}
              /\ \A k \in RawKeys :
                    Accepts(LagSpec, Coerce(k)) => ~Newer(Coerce(k), LagResult.release)
        /\ ~SomeReleaseSatisfies =>
              /\ LagResult.status = "raised"
              /\ status = "raised"
              /\ error \in {"TypeError", "KeyError"}
              /\ stack[1].pc = "raised"
              /\ tempdirs = {} /\ nextDir = 0

C4_Witness ==
    /\ LagCalled
    /\ ~SomeReleaseSatisfies
    /\ LagDoc.version \in KeysAfterNormalization
    /\ status = "raised" /\ error = "TypeError"

\* C8: on one release set, for exact constraints ==X and ==Y that both select,
\* X newer than Y implies count(X) <= count(Y).
ExactConstraint(v) == <<[op |-> "==", v |-> v]>>

C8_CountMonotonic ==
    (LagReturns /\ LagSpec = ExactConstraint(LagResult.release)) =>
        \A k \in RawKeys :
            LET other == lag_package(LagDoc, ExactConstraint(Coerce(k))) IN
            other.status = "ok" =>
                /\ Newer(LagResult.release, other.release) => LagResult.count <= other.count
                /\ Newer(other.release, LagResult.release) => other.count <= LagResult.count

C8_Witness ==
    /\ LagReturns /\ LagSpec = ExactConstraint(LagResult.release)
    /\ \E k \in RawKeys :
          LET other == lag_package(LagDoc, ExactConstraint(Coerce(k))) IN
          /\ other.status = "ok"
          /\ Newer(LagResult.release, other.release)
          /\ LagResult.count < other.count

\* --------------------------------------------------- the walk: the claims
InWithBlock(f) == f.pc \in {"extract", "get_requires", "exit_with"}

\* C5: the extraction directory of a node is gone once its find_dependencies
\* has returned or raised, on every path: only the frame inside the with block
\* has a directory, so at most one exists, none exists when a child call
\* starts, and none is left when the program has ended.
C5_ScopedCleanup ==
    /\ Cardinality(tempdirs) <= 1
    /\ \A i \in DOMAIN stack :
          /\ stack[i].tmp \in tempdirs => i = Len(stack) /\ InWithBlock(stack[i])
          /\ InWithBlock(stack[i]) => tempdirs = {stack[i].tmp}
          /\ stack[i].pc = "lag_package" => tempdirs = {}
    /\ status # "running" => tempdirs = {}

\* An exception raised while extracting or reading metadata has ended the
\* program, and the directory created for the node is gone.
C5_Witness ==
    /\ status = "raised"
    /\ error \in {"StreamError", "SetupError", "Exception"}
    /\ stack[Len(stack)].tmp # 0
    /\ stack[Len(stack)].tmp \notin tempdirs

\* C6: after get_requires has used the build-script fallback, the working
\* directory and sys.path are what they were before the call, whether
\* run_setup returned or raised.
C6_StateRestored ==
    \A i \in DOMAIN stack :
        (stack[i].pc = "exit_with" /\ stack[i].tier = "setup") =>
            /\ cwd = stack[i].cwd_before
            /\ sys_path = stack[i].path_before

\* An archive with an entry that resolves outside the extraction directory.
HasEscapingEntry(archive) ==
    \E i \in DOMAIN archive.members :
        ~Inside(ExtractRoot, AbsPath(ExtractRoot \o archive.members[i].name))

Extracted(f) == f.tmp # 0 /\ f.pc # "extract"

\* C7: for a gzip tar or a zip with an entry resolving outside the extraction
\* directory, extraction is aborted with the path-traversal exception and
\* nothing is written outside the directory.
C7_TraversalRejected ==
    \A i \in DOMAIN stack :
        (/\ Extracted(stack[i])
         /\ artifact[stack[i].package].ext \in {"gz", "zip"}
         /\ HasEscapingEntry(artifact[stack[i].package])) =>
            /\ stack[i].exc = "Exception"
            /\ escaped = {}

\* The reports a report descends from, by the calls that led to it.
RECURSIVE ReportAncestors(_)
ReportAncestors(k) ==
    IF out[k].parent = 0 THEN {}
    ELSE {out[k].parent} \cup ReportAncestors(out[k].parent)

DeclaredNames(package) ==
    [i \in DOMAIN artifact[package].declares |-> artifact[package].declares[i].name]

ChildReports(k) == SelectSeq([j \in DOMAIN out |-> j], LAMBDA j : out[j].parent = k)

\* C9: depth-first, pre-order.  The root is reported at depth 0; a report comes
\* after its parent's and one level deeper, for a package the parent declares;
\* everything reported between a node and one of its children descends from
\* the node's earlier children (no two sibling subtrees are in progress); the
\* calls in progress are one chain; and when the walk is done, every node's
\* children are its declared dependencies, in order.
C9_DepthFirstPreOrder ==
    /\ out # <<>> =>
          out[1].depth = 0 /\ out[1].parent = 0 /\ out[1].package = RootPackage
    /\ \A k \in DOMAIN out : k > 1 =>
          LET p == out[k].parent IN
          /\ p \in 1..(k - 1)
          /\ out[k].depth = out[p].depth + 1
          /\ \E i \in DOMAIN DeclaredNames(out[p].package) :
                DeclaredNames(out[p].package)[i] = out[k].package
          /\ \A j \in (p + 1)..(k - 1) : p \in ReportAncestors(j)
    /\ \A i \in DOMAIN stack :
          /\ stack[i].depth = i - 1
          /\ i > 1 => stack[i].parent = stack[i - 1].node /\ stack[i - 1].node # 0
          /\ i < Len(stack) => stack[i].pc = "loop"
    /\ status = "done" =>
          \A k \in DOMAIN out :
             [i \in DOMAIN ChildReports(k) |-> out[ChildReports(k)[i]].package]
                = DeclaredNames(out[k].package)

\* A finished walk with a node at depth 2 and a node with two children.
C9_Witness ==
    /\ status = "done"
    /\ \E k \in DOMAIN out : out[k].depth = 2
    /\ \E k \in DOMAIN out : Len(ChildReports(k)) = 2

\* The dependency graph the archives declare.
DepsOf(package) == {artifact[package].declares[i].name : i \in DOMAIN artifact[package].declares}

RECURSIVE ReachableIn(_, _)
ReachableIn(S, n) ==
    IF n = 0 THEN S ELSE ReachableIn(S \cup UNION {DepsOf(p) : p \in S}, n - 1)

ReachableFrom(S) == ReachableIn(S, Cardinality(Packages))

CycleReachable ==
    \E p \in ReachableFrom({RootPackage}) : p \in ReachableFrom(DepsOf(p))

\* The number of dependency paths from a package to a target (acyclic graphs).
RECURSIVE SumOver(_, _)
RECURSIVE PathCount(_, _, _)
SumOver(f, S) ==
    IF S = {} THEN 0
    ELSE LET x == CHOOSE y \in S : TRUE IN f[x] + SumOver(f, S \ {x})

PathCount(from, target, fuel) ==
    IF fuel = 0 THEN 0
    ELSE (IF from = target THEN 1 ELSE 0)
         + SumOver([d \in DepsOf(from) |-> PathCount(d, target, fuel - 1)], DepsOf(from))

Paths(target) == PathCount(RootPackage, target, Cardinality(Packages))

Reports(package) == Cardinality({k \in DOMAIN out : out[k].package = package})

Failed == status \in {"raised", "exited"}

\* C10: no visited set, no depth limit.  A walk that is done walked a graph
\* with no cycle reachable from the root, and reported every package once per
\* dependency path from the root to it; a walk of a graph with no reachable
\* cycle ends; and with a reachable cycle the walk, unless a node fails, goes
\* as deep as the model lets it, whatever the cap.
C10_NoVisitedSet ==
    /\ [](status = "done" =>
             /\ ~CycleReachable
             /\ \A p \in Packages : Reports(p) = Paths(p))
    /\ (~CycleReachable) ~> (status # "running")
    /\ CycleReachable ~> (Len(stack) = MaxDepth \/ Failed)

\* A finished walk that reported a package reachable by two paths twice.
C10_Witness ==
    /\ status = "done"
    /\ \E p \in Packages : Paths(p) >= 2 /\ Reports(p) = Paths(p)

=============================================================================
